---- MODULE Spec2Model ----
(***************************************************************************)
(* SentinelAI: the application state machine of src/src/App.tsx, the       *)
(* analysis client of src/src/services/geminiService.ts and the incident   *)
(* projection of src/src/components/IncidentTable.tsx.                     *)
(*                                                                         *)
(* Conventions.  A nullable value (File | null, AnalysisResult | null,     *)
(* the seek request) is a sequence of length 0 or 1: <<>> is null and      *)
(* <<x>> is the value x.  A string that the code only tests with           *)
(* includes() or for emptiness is a sequence of tokens: <<>> is '' and     *)
(* s.includes(w) is "w is one of the tokens of s".  A MIME type is the     *)
(* sequence of its '/'-separated segments.                                 *)
(***************************************************************************)
EXTENDS Integers, Sequences, FiniteSets, TLC

\* ------------------------------------------------------------------ bounds
MaxNow == 2
MaxObjectUrls == 2
MaxClientCalls == 1
MaxIncidents == 3
MaxExported == 2
MaxPosition == 50

\* --------------------------------------------------------------- constants
MB == 1024 * 1024
SelectMaxSize == 75 * MB
AnalyzeMaxSize == 50 * MB

NULL == <<>>
EmptyString == <<>>
Msg(s) == <<s>>
includes(m, w) == \E i \in DOMAIN m : m[i] = w

UPLOAD == "UPLOAD"
ANALYZING == "ANALYZING"
RESULTS == "RESULTS"
ERROR == "ERROR"
AppState == {UPLOAD, ANALYZING, RESULTS, ERROR}

Severity == {"Low", "Medium", "High"}

API_KEY == Msg("AIzaSy")

\* ------------------------------------------------------------------ inputs
\* The files a user can pick or drop: declared type and size in bytes.
VideoMp4 == <<"video", "mp4">>
TextPlain == <<"text", "plain">>
FileTypes == {VideoMp4, TextPlain}
FileSizes == {10 * MB, 50 * MB + 1, 75 * MB, 75 * MB + 1}
Files == [type : FileTypes, size : FileSizes]

\* file.type.startsWith('video/')
startsWithVideo(type) == Len(type) >= 2 /\ type[1] = "video"

\* Incidents as the service supplies them (no id).
RawIncident(ts, secs, sev, desc) ==
    [timestamp |-> ts, seconds |-> secs, severity |-> sev, description |-> desc]

\* JSON values of the two top-level fields the client looks at.
JUndefined == [t |-> "undefined", s |-> EmptyString, a |-> <<>>]
JString(s) == [t |-> "string", s |-> s, a |-> <<>>]
JArray(a) == [t |-> "array", s |-> EmptyString, a |-> a]
\* A JSON number, s holding its digits.
JNumber(digits) == [t |-> "number", s |-> Msg(digits), a |-> <<>>]
\* JavaScript truthiness of such a value: '', 0 and undefined are falsy.
truthy(v) == \/ v.t = "array"
             \/ v.t = "string" /\ v.s # EmptyString
             \/ v.t = "number" /\ v.s # Msg("0")
isArray(v) == v.t = "array"

\* What response.text() holds: nothing, text that is not JSON, or an object.
EmptyText == [parse |-> "empty", error |-> EmptyString,
              summary |-> JUndefined, incidents |-> JUndefined]
NotJson(m) == [parse |-> "invalid", error |-> m,
               summary |-> JUndefined, incidents |-> JUndefined]
JsonObject(sum, incs) == [parse |-> "object", error |-> EmptyString,
                          summary |-> sum, incidents |-> incs]

\* What the inference service does with the one request.
ServiceThrows(m) == [kind |-> "throw", message |-> m, text |-> EmptyText]
ServiceReturns(text) == [kind |-> "text", message |-> EmptyString, text |-> text]

IncX == RawIncident("00:05", 5, "High", Msg("x"))
IncY == RawIncident("00:30", 30, "Low", Msg("y"))

ServiceOutcomes ==
    { ServiceReturns(JsonObject(JString(Msg("ok")), JArray(<<IncX>>))),
      ServiceReturns(JsonObject(JString(Msg("ok")), JArray(<<IncY, IncX>>))),
      ServiceReturns(JsonObject(JString(EmptyString), JArray(<<IncX>>))),
      ServiceReturns(JsonObject(JString(Msg("ok")), JUndefined)),
      ServiceReturns(EmptyText),
      ServiceReturns(NotJson(Msg("Unexpected token"))),
      ServiceThrows(<<"API_KEY_INVALID">>),
      ServiceThrows(<<"429", "quota">>),
      ServiceThrows(<<"400", "API_KEY_INVALID", "quota">>),
      ServiceThrows(Msg("fetch failed")),
      ServiceThrows(EmptyString) }

\* The files and service outcomes of direct calls of the analysis client.
JustVideo == <<"video">>
NoType == <<>>
ClientFileTypes == FileTypes \cup {JustVideo, NoType}
ClientFileSizes == {0, 10 * MB, 50 * MB, 50 * MB + 1, 75 * MB + 1}
ClientFiles == [type : ClientFileTypes, size : ClientFileSizes]

ClientServiceOutcomes ==
    ServiceOutcomes \cup
    { ServiceReturns(JsonObject(JString(EmptyString), JArray(<<>>))),
      ServiceReturns(JsonObject(JString(Msg("ok")), JArray(<<>>))),
      ServiceReturns(JsonObject(JNumber("42"), JArray(<<IncX>>))),
      ServiceReturns(JsonObject(JNumber("0"), JArray(<<IncX>>))),
      ServiceReturns(JsonObject(JUndefined, JArray(<<IncX>>))),
      ServiceReturns(JsonObject(JString(Msg("ok")), JString(Msg("none")))),
      ServiceReturns(JsonObject(JString(Msg("ok")), JArray(<<IncX, IncX>>))),
      ServiceReturns(NotJson(<<"Unexpected token", "quota">>)) }

\* --------------------------------------------------------- analysis client
\* The value a settled analyzeVideoWithGemini promise carries.
Fulfilled(sum, incs) ==
    [ok |-> TRUE, summary |-> sum, incidents |-> incs, message |-> EmptyString]
Rejected(m) ==
    [ok |-> FALSE, summary |-> EmptyString, incidents |-> <<>>, message |-> m]

\* Variant: the id built from the time alone.
withIdsFromTimeOnly(raw, t) ==
    [i \in DOMAIN raw |->
        [id |-> <<"inc", 0, t>>,
         timestamp |-> raw[i].timestamp,
         seconds |-> raw[i].seconds,
         severity |-> raw[i].severity,
         description |-> raw[i].description]]

\* parsedData.incidents.map((inc, index) => ({id: `inc-${index}-${Date.now()}`, ...}))
withIds(raw, t) ==
    [i \in DOMAIN raw |->
        [id |-> <<"inc", i - 1, t>>,
         timestamp |-> raw[i].timestamp,
         seconds |-> raw[i].seconds,
         severity |-> raw[i].severity,
         description |-> raw[i].description]]

\* The body of the try block: the error thrown inside it, or the result.
tryBody(readOk, svc, t) ==
    IF ~readOk THEN Rejected(Msg("Failed to read file"))
    ELSE IF svc.kind = "throw" THEN Rejected(svc.message)
    ELSE IF svc.text.parse = "empty" THEN Rejected(Msg("No response from Gemini API"))
    ELSE IF svc.text.parse = "invalid" THEN Rejected(svc.text.error)
    ELSE IF ~truthy(svc.text.summary) \/ ~isArray(svc.text.incidents)
         THEN Rejected(Msg("Invalid response format from Gemini API"))
    ELSE Fulfilled(IF truthy(svc.text.summary) THEN svc.text.summary.s
                                               ELSE Msg("Analysis complete."),
                   withIds(svc.text.incidents.a, t))

\* Variant: the catch block without its quota case.
catchBlockWithoutQuota(error) ==
    IF includes(error.message, "API_KEY_INVALID")
      THEN Rejected(Msg("Invalid API key. Please check your Gemini API key configuration."))
    ELSE IF includes(error.message, "Failed to read file")
      THEN Rejected(Msg("Failed to read the video file. Please try again."))
    ELSE Rejected(IF error.message # EmptyString THEN error.message
                  ELSE Msg("Failed to analyze video. Please try again or check the file format."))

\* The catch block: maps the error thrown inside the try block.
catchBlock(error) ==
    IF includes(error.message, "API_KEY_INVALID")
      THEN Rejected(Msg("Invalid API key. Please check your Gemini API key configuration."))
    ELSE IF includes(error.message, "quota")
      THEN Rejected(Msg("API quota exceeded. Please try again later."))
    ELSE IF includes(error.message, "Failed to read file")
      THEN Rejected(Msg("Failed to read the video file. Please try again."))
    ELSE Rejected(IF error.message # EmptyString THEN error.message
                  ELSE Msg("Failed to analyze video. Please try again or check the file format."))

analyzeVideoWithGemini(f, readOk, svc, t) ==
    IF API_KEY = EmptyString
      THEN Rejected(Msg("API Key not found in environment variables"))
    ELSE IF ~startsWithVideo(f.type)
      THEN Rejected(Msg("Invalid file type. Please upload a video file."))
    ELSE IF f.size > AnalyzeMaxSize
      THEN Rejected(Msg("File size exceeds 50MB limit. Please use a smaller video."))
    ELSE LET r == tryBody(readOk, svc, t)
         IN IF r.ok THEN r ELSE catchBlock(r)

\* Variant: the request is sent before the file is validated.
requestsIssuedBeforeValidation(f, readOk) ==
    IF API_KEY = EmptyString THEN 0
    ELSE IF ~readOk THEN 0
    ELSE 1

\* The number of model.generateContent calls one analyzeVideoWithGemini call
\* makes: the call is reached only past the three checks and the file read.
requestsIssued(f, readOk) ==
    IF API_KEY = EmptyString THEN 0
    ELSE IF ~startsWithVideo(f.type) THEN 0
    ELSE IF f.size > AnalyzeMaxSize THEN 0
    ELSE IF ~readOk THEN 0
    ELSE 1

\* A call of analyzeVideoWithGemini that has not settled, and its settling
\* with the environment's part: whether the file could be read and what the
\* service did.
newCall(f) == [file |-> f, outcome |-> NULL, env |-> NULL, requests |-> 0]
settled(call, readOk, svc, t) ==
    [file |-> call.file,
     outcome |-> <<analyzeVideoWithGemini(call.file, readOk, svc, t)>>,
     env |-> <<[readOk |-> readOk, svc |-> svc]>>,
     requests |-> requestsIssued(call.file, readOk)]

\* ------------------------------------------------------ incident projection
\* Array.prototype.sort with (a, b) => a.seconds - b.seconds: stable.
RECURSIVE insertBySeconds(_, _)
insertBySeconds(sorted, inc) ==
    IF sorted = <<>> THEN <<inc>>
    ELSE IF sorted[Len(sorted)].seconds <= inc.seconds THEN Append(sorted, inc)
    ELSE Append(insertBySeconds(SubSeq(sorted, 1, Len(sorted) - 1), inc),
                sorted[Len(sorted)])

RECURSIVE sortBySeconds(_)
sortBySeconds(s) ==
    IF s = <<>> THEN <<>>
    ELSE insertBySeconds(sortBySeconds(SubSeq(s, 1, Len(s) - 1)), s[Len(s)])

\* Variant: the filtered list left in the order of the result.
filteredIncidentsUnsorted(incidents, flt) ==
    SelectSeq(incidents, LAMBDA inc : flt[inc.severity])

\* incidents.filter(inc => filters[inc.severity]).sort(...): filter builds a
\* new array, which sort then orders in place; incidents itself is untouched.
filteredIncidents(incidents, flt) ==
    sortBySeconds(SelectSeq(incidents, LAMBDA inc : flt[inc.severity]))

abs(x) == IF x < 0 THEN -x ELSE x

\* Variant: a distance of exactly three seconds counts as near.
isNearInclusive(currentTime, inc) == abs(currentTime - inc.seconds) <= 3

\* The predicate of the find: Math.abs(currentTime - inc.seconds) < 3
isNear(currentTime, inc) == abs(currentTime - inc.seconds) < 3

\* incidents.find(inc => ...)?.id from position i on: NULL (undefined) or <<id>>.
RECURSIVE findActiveFrom(_, _, _)
findActiveFrom(incidents, currentTime, i) ==
    IF i > Len(incidents) THEN NULL
    ELSE IF isNear(currentTime, incidents[i]) THEN <<incidents[i].id>>
    ELSE findActiveFrom(incidents, currentTime, i + 1)

activeIncidentId(incidents, currentTime) == findActiveFrom(incidents, currentTime, 1)

\* Variant: the filtered list memoised on [incidents] only.
IncidentTableStaleFilters(prev, incidents, flt, currentTime) ==
    LET first == prev = NULL
    IN [incidents |-> incidents,
        filters |-> flt,
        currentTime |-> currentTime,
        filteredIncidents |->
            IF first \/ prev[1].incidents # incidents
              THEN filteredIncidents(incidents, flt)
              ELSE prev[1].filteredIncidents,
        activeIncidentId |->
            IF first \/ prev[1].currentTime # currentTime \/ prev[1].incidents # incidents
              THEN activeIncidentId(incidents, currentTime)
              ELSE prev[1].activeIncidentId]

\* One render of IncidentTable with the given props: each useMemo value is
\* recomputed on the first render and when one of its dependencies changed,
\* and kept otherwise.  prev is the component's previous render, NULL on mount.
IncidentTable(prev, incidents, flt, currentTime) ==
    LET first == prev = NULL
    IN [incidents |-> incidents,
        filters |-> flt,
        currentTime |-> currentTime,
        filteredIncidents |->
            IF first \/ prev[1].incidents # incidents \/ prev[1].filters # flt
              THEN filteredIncidents(incidents, flt)
              ELSE prev[1].filteredIncidents,
        activeIncidentId |->
            IF first \/ prev[1].currentTime # currentTime \/ prev[1].incidents # incidents
              THEN activeIncidentId(incidents, currentTime)
              ELSE prev[1].activeIncidentId]

\* ------------------------------------------------------------ video player
\* A JavaScript number as the player handles it: NaN or an integer.
Num(v) == [nan |-> FALSE, v |-> v]
NaN == [nan |-> TRUE, v |-> 0]

min(a, b) == IF a < b THEN a ELSE b
max(a, b) == IF a < b THEN b ELSE a

\* The player as VideoPlayer mounts it: a paused video element without
\* metadata (its duration reads NaN), isPlaying false, duration 0.
\* seekParity and rejection are history: seekParity flips with every run of
\* the seek effect that sets the position, rejection tells what became of the
\* last rejected play request ("logged" by a catch handler, or "uncaught").
mountedPlayer ==
    [video |-> [currentTime |-> 0, paused |-> TRUE, metadata |-> FALSE,
                duration |-> NaN],
     isPlaying |-> FALSE,
     duration |-> Num(0),
     seekParity |-> 0,
     rejection |-> "none"]

\* videoRef.current.currentTime = x: the element keeps its position at or
\* above 0 and, once it has metadata with a known duration, at or below it.
setCurrentTime(video, x) ==
    [video EXCEPT !.currentTime =
        IF video.metadata /\ ~video.duration.nan
          THEN max(0, min(x, video.duration.v))
          ELSE max(0, x)]

\* videoRef.current.play(): the element starts playing, or the platform
\* rejects the request and the element stays paused.
play(video, playOk) == [video EXCEPT !.paused = ~playOk]

\* Variant: the effect sets the position and the indicator, and never plays.
seekEffectWithoutPlay(p, seekTo, playOk) ==
    LET sought == setCurrentTime(p.video, seekTo.time)
    IN [p EXCEPT !.video = sought,
                 !.isPlaying = TRUE,
                 !.seekParity = 1 - @]

\* The effect on [seekTo], run with a non-null seekTo:
\* position, then play().catch(console.error) if paused, setIsPlaying(true).
seekEffect(p, seekTo, playOk) ==
    LET sought == setCurrentTime(p.video, seekTo.time)
    IN IF sought.paused
         THEN [p EXCEPT !.video = play(sought, playOk),
                        !.isPlaying = TRUE,
                        !.rejection = IF playOk THEN @ ELSE "logged",
                        !.seekParity = 1 - @]
         ELSE [p EXCEPT !.video = sought,
                        !.isPlaying = TRUE,
                        !.seekParity = 1 - @]

\* ------------------------------------------------------------- export text
\* Texts are sequences of tokens; the separators and the quote are tokens of
\* their own, and so are the characters of a description.
Comma == <<",">>
LineBreak == <<"\n">>
DoubleQuote == <<"\"">>

\* Array.prototype.join(sep) over an array of texts.
RECURSIVE join(_, _)
join(parts, sep) ==
    IF parts = <<>> THEN <<>>
    ELSE IF Len(parts) = 1 THEN parts[1]
    ELSE parts[1] \o sep \o join(Tail(parts), sep)

csvHeaders == << <<"Timestamp">>, <<"Severity">>, <<"Description">> >>

\* Variant: the description written without its quotes.
csvRowUnquoted(inc) == << <<inc.timestamp>>, <<inc.severity>>, inc.description >>

\* [inc.timestamp, inc.severity, `"${inc.description}"`]
csvRow(inc) ==
    << <<inc.timestamp>>, <<inc.severity>>,
       DoubleQuote \o inc.description \o DoubleQuote >>

\* [headers.join(','), ...rows.map(r => r.join(','))].join('\n')
csvContent(filtered) ==
    join(<<join(csvHeaders, Comma)>> \o
           [i \in DOMAIN filtered |-> join(csvRow(filtered[i]), Comma)],
         LineBreak)

\* `[${inc.timestamp}] ${inc.severity}: ${inc.description}`
clipboardEntry(inc) ==
    <<"[", inc.timestamp, "] ", inc.severity, ": ">> \o inc.description

\* filteredIncidents.map(...).join('\n')
clipboardText(filtered) ==
    join([i \in DOMAIN filtered |-> clipboardEntry(filtered[i])], LineBreak)

\* ------------------------------------------------------------------- state
VARIABLES
    appState,        \* App.tsx:36
    file,            \* App.tsx:37   NULL or <<File>>
    analysisResult,  \* App.tsx:38   NULL or <<AnalysisResult>>
    errorMsg,        \* App.tsx:39
    videoUrl,        \* App.tsx:42   '' or <<"blob", n>>
    seekToRequest,   \* App.tsx:48   NULL or <<[time, timestamp]>>
    filters,         \* App.tsx:51
    pending,         \* the startAnalysis calls suspended at their await
    objectUrls,      \* number of object URLs created so far (none is revoked);
                     \* creation stops at MaxObjectUrls
    now,             \* Date.now()
    lastEvent,       \* history: the handler that ran last
    resetSinceAnalysis, \* history: handleReset has run since Analyzing was last entered
    currentVideoTime, \* App.tsx:43
    table,           \* the mounted IncidentTable: its last props and its two
                     \* useMemo values; NULL while the results view is unmounted
    clipboard,       \* NULL or <<the text last handed to clipboard.writeText>>
    download,        \* NULL or <<the content of the last CSV blob offered
                     \* for download>>
    videoDuration,   \* App.tsx:45
    player           \* <<the mounted VideoPlayer: its video element and its
                     \* useState values>> where PlayerSpec follows the player;
                     \* NULL where the player is seen only through its
                     \* callbacks onTimeUpdate and onDurationChange

vars == <<appState, file, analysisResult, errorMsg, videoUrl, seekToRequest,
          filters, pending, objectUrls, now, lastEvent, resetSinceAnalysis,
          currentVideoTime, table, clipboard, download, videoDuration, player>>

appVars == <<appState, file, analysisResult, errorMsg, videoUrl, seekToRequest, filters>>

\* The handler that ran, its file argument and the view it ran in.
Event(name, f) == [name |-> name, file |-> f, from |-> appState]

AllTrue == [s \in Severity |-> TRUE]

Init ==
    /\ appState = UPLOAD
    /\ file = NULL
    /\ analysisResult = NULL
    /\ errorMsg = EmptyString
    /\ videoUrl = EmptyString
    /\ seekToRequest = NULL
    /\ filters = AllTrue
    /\ pending = <<>>
    /\ objectUrls = 0
    /\ now = 0
    /\ lastEvent = [name |-> "init", file |-> NULL, from |-> UPLOAD]
    /\ resetSinceAnalysis = TRUE
    /\ currentVideoTime = 0
    /\ table = NULL
    /\ clipboard = NULL
    /\ download = NULL
    /\ videoDuration = Num(0)
    /\ player = NULL

\* The object URLs released so far: the program never calls
\* URL.revokeObjectURL.
revokedObjectUrls == {}

\* ------------------------------------------------------------------- views
\* Which view the render function mounts; a handler can run only while the
\* view that references it is mounted.
\* Variant: the upload view stays mounted in every state.
uploadViewAlwaysMounted == TRUE
uploadViewMounted == appState = UPLOAD
analyzingViewMounted == appState = ANALYZING
resultsViewMounted == appState = RESULTS
\* Variant: the error view stays mounted in every state.
errorViewAlwaysMounted == TRUE
errorViewMounted == appState = ERROR

\* The render that follows every state change: the results view, and with it
\* the incident table, is mounted exactly while appState is RESULTS.
renderTable ==
    table' = IF appState' = RESULTS
               THEN <<IncidentTable(table,
                                    IF analysisResult' = NULL THEN <<>>
                                    ELSE analysisResult'[1].incidents,
                                    filters', currentVideoTime')>>
               ELSE NULL

\* ----------------------------------------------------------------- actions
\* Variant: the size cap compared with >= instead of >.
validateAndSetFileInclusiveCap(f) ==
    IF ~startsWithVideo(f.type)
      THEN /\ errorMsg' = Msg("Please upload a valid video file (MP4, MOV, WebM).")
           /\ UNCHANGED <<file, videoUrl, objectUrls>>
    ELSE IF f.size >= SelectMaxSize
      THEN /\ errorMsg' = Msg("File size exceeds 75MB limit.")
           /\ UNCHANGED <<file, videoUrl, objectUrls>>
    ELSE /\ objectUrls < MaxObjectUrls
         /\ file' = <<f>>
         /\ objectUrls' = objectUrls + 1
         /\ videoUrl' = <<"blob", objectUrls + 1>>
         /\ errorMsg' = EmptyString

validateAndSetFile(f) ==
    IF ~startsWithVideo(f.type)
      THEN /\ errorMsg' = Msg("Please upload a valid video file (MP4, MOV, WebM).")
           /\ UNCHANGED <<file, videoUrl, objectUrls>>
    ELSE IF f.size > SelectMaxSize
      THEN /\ errorMsg' = Msg("File size exceeds 75MB limit.")
           /\ UNCHANGED <<file, videoUrl, objectUrls>>
    ELSE /\ objectUrls < MaxObjectUrls
         /\ file' = <<f>>
         /\ objectUrls' = objectUrls + 1
         /\ videoUrl' = <<"blob", objectUrls + 1>>
         /\ errorMsg' = EmptyString

\* The hidden file input; the picker is opened only while no file is held.
handleFileChange(f) ==
    /\ uploadViewMounted
    /\ file = NULL
    /\ validateAndSetFile(f)
    /\ lastEvent' = Event("handleFileChange", <<f>>)
    /\ UNCHANGED <<appState, analysisResult, seekToRequest, filters, pending,
                   now, resetSinceAnalysis>>
    /\ UNCHANGED <<currentVideoTime, clipboard, download>>
    /\ renderTable
    /\ UNCHANGED <<videoDuration, player>>

handleDrop(f) ==
    /\ uploadViewMounted
    /\ validateAndSetFile(f)
    /\ lastEvent' = Event("handleDrop", <<f>>)
    /\ UNCHANGED <<appState, analysisResult, seekToRequest, filters, pending,
                   now, resetSinceAnalysis>>
    /\ UNCHANGED <<currentVideoTime, clipboard, download>>
    /\ renderTable
    /\ UNCHANGED <<videoDuration, player>>

\* Variant: startAnalysis without its guard on file.
startAnalysisUnguarded ==
    /\ uploadViewMounted
    /\ lastEvent' = Event("startAnalysis", NULL)
    /\ appState' = ANALYZING
    /\ pending' = IF file = NULL THEN pending
                  ELSE Append(pending, newCall(file[1]))
    /\ resetSinceAnalysis' = FALSE
    /\ UNCHANGED <<file, analysisResult, errorMsg, videoUrl, seekToRequest,
                   filters, objectUrls, now>>
    /\ UNCHANGED <<currentVideoTime, clipboard, download>>
    /\ renderTable
    /\ UNCHANGED <<videoDuration, player>>

\* Variant: startAnalysis that does not switch to the analyzing view.
startAnalysisStaysInUpload ==
    /\ uploadViewMounted
    /\ lastEvent' = Event("startAnalysis", NULL)
    /\ IF file = NULL
         THEN UNCHANGED <<pending, resetSinceAnalysis>>
         ELSE /\ pending' = Append(pending, newCall(file[1]))
              /\ resetSinceAnalysis' = FALSE
    /\ UNCHANGED <<appState, file, analysisResult, errorMsg, videoUrl,
                   seekToRequest, filters, objectUrls, now>>
    /\ UNCHANGED <<currentVideoTime, clipboard, download>>
    /\ renderTable
    /\ UNCHANGED <<videoDuration, player>>

\* startAnalysis up to its await.  The button that calls it is rendered in the
\* upload view; the handler's own guard covers the call with no file.
startAnalysis ==
    /\ uploadViewMounted
    /\ lastEvent' = Event("startAnalysis", NULL)
    /\ IF file = NULL
         THEN UNCHANGED <<appState, pending, resetSinceAnalysis>>
         ELSE /\ appState' = ANALYZING
              /\ pending' = Append(pending, newCall(file[1]))
              /\ resetSinceAnalysis' = FALSE
    /\ UNCHANGED <<file, analysisResult, errorMsg, videoUrl, seekToRequest,
                   filters, objectUrls, now>>
    /\ UNCHANGED <<currentVideoTime, clipboard, download>>
    /\ renderTable
    /\ UNCHANGED <<videoDuration, player>>

\* The promise of one analyzeVideoWithGemini call settles.
analysisSettles(i, readOk, svc) ==
    /\ i \in DOMAIN pending
    /\ pending[i].outcome = NULL
    /\ pending' = [pending EXCEPT ![i] = settled(pending[i], readOk, svc, now)]
    /\ UNCHANGED <<appState, file, analysisResult, errorMsg, videoUrl,
                   seekToRequest, filters, objectUrls, now, lastEvent,
                   resetSinceAnalysis>>
    /\ UNCHANGED <<currentVideoTime, clipboard, download>>
    /\ renderTable
    /\ UNCHANGED <<videoDuration, player>>

removeAt(s, i) == SubSeq(s, 1, i - 1) \o SubSeq(s, i + 1, Len(s))

\* Variant: the result is not stored before the results view is shown.
startAnalysisResumesWithoutResult(i) ==
    /\ i \in DOMAIN pending
    /\ pending[i].outcome # NULL
    /\ pending[i].outcome[1].ok
    /\ appState' = RESULTS
    /\ pending' = removeAt(pending, i)
    /\ lastEvent' = Event("startAnalysisResumes", NULL)
    /\ UNCHANGED <<file, analysisResult, errorMsg, videoUrl, seekToRequest,
                   filters, objectUrls, now, resetSinceAnalysis>>
    /\ UNCHANGED <<currentVideoTime, clipboard, download>>
    /\ renderTable
    /\ UNCHANGED <<videoDuration, player>>

\* startAnalysis after its await, the promise fulfilled.
startAnalysisResumes(i) ==
    /\ i \in DOMAIN pending
    /\ pending[i].outcome # NULL
    /\ pending[i].outcome[1].ok
    /\ analysisResult' = <<[summary |-> pending[i].outcome[1].summary,
                            incidents |-> pending[i].outcome[1].incidents]>>
    /\ appState' = RESULTS
    /\ pending' = removeAt(pending, i)
    /\ lastEvent' = Event("startAnalysisResumes", NULL)
    /\ UNCHANGED <<file, errorMsg, videoUrl, seekToRequest, filters,
                   objectUrls, now, resetSinceAnalysis>>
    /\ UNCHANGED <<currentVideoTime, clipboard, download>>
    /\ renderTable
    /\ UNCHANGED <<videoDuration, player>>

\* Variant: the catch block sends the request again after showing the error.
startAnalysisCatchesAndRetries(i) ==
    /\ i \in DOMAIN pending
    /\ pending[i].outcome # NULL
    /\ ~pending[i].outcome[1].ok
    /\ appState' = ERROR
    /\ errorMsg' = IF pending[i].outcome[1].message # EmptyString
                     THEN pending[i].outcome[1].message
                     ELSE Msg("An unexpected error occurred during analysis.")
    /\ pending' = Append(removeAt(pending, i), newCall(pending[i].file))
    /\ lastEvent' = Event("startAnalysisCatches", NULL)
    /\ UNCHANGED <<file, analysisResult, videoUrl, seekToRequest, filters,
                   objectUrls, now, resetSinceAnalysis>>
    /\ UNCHANGED <<currentVideoTime, clipboard, download>>
    /\ renderTable
    /\ UNCHANGED <<videoDuration, player>>

\* Variant: the catch block shows its fallback text instead of err.message.
startAnalysisCatchesFallbackOnly(i) ==
    /\ i \in DOMAIN pending
    /\ pending[i].outcome # NULL
    /\ ~pending[i].outcome[1].ok
    /\ appState' = ERROR
    /\ errorMsg' = Msg("An unexpected error occurred during analysis.")
    /\ pending' = removeAt(pending, i)
    /\ lastEvent' = Event("startAnalysisCatches", NULL)
    /\ UNCHANGED <<file, analysisResult, videoUrl, seekToRequest, filters,
                   objectUrls, now, resetSinceAnalysis>>
    /\ UNCHANGED <<currentVideoTime, clipboard, download>>
    /\ renderTable
    /\ UNCHANGED <<videoDuration, player>>

\* startAnalysis after its await, the promise rejected: the catch block.
\* Variant: the catch branch shows the message and forgets setAppState(ERROR).
startAnalysisCatchesStaysAnalyzing(i) ==
    /\ i \in DOMAIN pending
    /\ pending[i].outcome # NULL
    /\ ~pending[i].outcome[1].ok
    /\ errorMsg' = IF pending[i].outcome[1].message # EmptyString
                     THEN pending[i].outcome[1].message
                     ELSE Msg("An unexpected error occurred during analysis.")
    /\ pending' = removeAt(pending, i)
    /\ lastEvent' = Event("startAnalysisCatches", NULL)
    /\ UNCHANGED <<appState, file, analysisResult, videoUrl, seekToRequest,
                   filters, objectUrls, now, resetSinceAnalysis>>
    /\ UNCHANGED <<currentVideoTime, clipboard, download>>
    /\ renderTable
    /\ UNCHANGED <<videoDuration, player>>

startAnalysisCatches(i) ==
    /\ i \in DOMAIN pending
    /\ pending[i].outcome # NULL
    /\ ~pending[i].outcome[1].ok
    /\ appState' = ERROR
    /\ errorMsg' = IF pending[i].outcome[1].message # EmptyString
                     THEN pending[i].outcome[1].message
                     ELSE Msg("An unexpected error occurred during analysis.")
    /\ pending' = removeAt(pending, i)
    /\ lastEvent' = Event("startAnalysisCatches", NULL)
    /\ UNCHANGED <<file, analysisResult, videoUrl, seekToRequest, filters,
                   objectUrls, now, resetSinceAnalysis>>
    /\ UNCHANGED <<currentVideoTime, clipboard, download>>
    /\ renderTable
    /\ UNCHANGED <<videoDuration, player>>

\* Variant: a reset button in every view, the analyzing view included.
handleResetWiredEverywhere == TRUE

\* Where handleReset is wired: Cancel (upload view, file held), Exit
\* (results view), Try Again (error view).
handleResetWired ==
    \/ uploadViewMounted /\ file # NULL
    \/ resultsViewMounted
    \/ errorViewMounted

\* Variant: the reset leaves the preview URL.
handleResetKeepsPreview ==
    /\ handleResetWired
    /\ appState' = UPLOAD
    /\ file' = NULL
    /\ analysisResult' = NULL
    /\ errorMsg' = EmptyString
    /\ seekToRequest' = NULL
    /\ lastEvent' = Event("handleReset", NULL)
    /\ resetSinceAnalysis' = TRUE
    /\ UNCHANGED <<filters, pending, objectUrls, now, videoUrl>>
    /\ UNCHANGED <<currentVideoTime, clipboard, download>>
    /\ renderTable
    /\ UNCHANGED <<videoDuration, player>>

\* Variant: the reset leaves the result.
handleResetKeepsResult ==
    /\ handleResetWired
    /\ appState' = UPLOAD
    /\ file' = NULL
    /\ videoUrl' = EmptyString
    /\ errorMsg' = EmptyString
    /\ seekToRequest' = NULL
    /\ lastEvent' = Event("handleReset", NULL)
    /\ resetSinceAnalysis' = TRUE
    /\ UNCHANGED <<filters, pending, objectUrls, now, analysisResult>>
    /\ UNCHANGED <<currentVideoTime, clipboard, download>>
    /\ renderTable
    /\ UNCHANGED <<videoDuration, player>>

\* Variant: the reset leaves the seek request.
handleResetKeepsSeek ==
    /\ handleResetWired
    /\ appState' = UPLOAD
    /\ file' = NULL
    /\ videoUrl' = EmptyString
    /\ analysisResult' = NULL
    /\ errorMsg' = EmptyString
    /\ lastEvent' = Event("handleReset", NULL)
    /\ resetSinceAnalysis' = TRUE
    /\ UNCHANGED <<filters, pending, objectUrls, now, seekToRequest>>
    /\ UNCHANGED <<currentVideoTime, clipboard, download>>
    /\ renderTable
    /\ UNCHANGED <<videoDuration, player>>

handleReset ==
    /\ handleResetWired
    /\ appState' = UPLOAD
    /\ file' = NULL
    /\ videoUrl' = EmptyString
    /\ analysisResult' = NULL
    /\ errorMsg' = EmptyString
    /\ seekToRequest' = NULL
    /\ lastEvent' = Event("handleReset", NULL)
    /\ resetSinceAnalysis' = TRUE
    /\ UNCHANGED <<filters, pending, objectUrls, now>>
    /\ UNCHANGED <<currentVideoTime, clipboard, download>>
    /\ renderTable
    /\ UNCHANGED <<videoDuration, player>>

\* Variant: Go Back also clears the message.
goBackClearsError ==
    /\ errorViewMounted
    /\ appState' = UPLOAD
    /\ errorMsg' = EmptyString
    /\ lastEvent' = Event("goBack", NULL)
    /\ UNCHANGED <<file, analysisResult, videoUrl, seekToRequest,
                   filters, pending, objectUrls, now, resetSinceAnalysis>>
    /\ UNCHANGED <<currentVideoTime, clipboard, download>>
    /\ renderTable
    /\ UNCHANGED <<videoDuration, player>>

\* The Go Back button of the error view.
goBack ==
    /\ errorViewMounted
    /\ appState' = UPLOAD
    /\ lastEvent' = Event("goBack", NULL)
    /\ UNCHANGED <<file, analysisResult, errorMsg, videoUrl, seekToRequest,
                   filters, pending, objectUrls, now, resetSinceAnalysis>>
    /\ UNCHANGED <<currentVideoTime, clipboard, download>>
    /\ renderTable
    /\ UNCHANGED <<videoDuration, player>>

currentIncidents == IF analysisResult = NULL THEN <<>> ELSE analysisResult[1].incidents

\* Variant: the button shows its severity alone.
onFilterChangeSolo(sev) ==
    /\ resultsViewMounted
    /\ filters' = [s \in Severity |-> IF s = sev THEN ~filters[sev] ELSE FALSE]
    /\ lastEvent' = Event("onFilterChange", NULL)
    /\ UNCHANGED <<appState, file, analysisResult, errorMsg, videoUrl,
                   seekToRequest, pending, objectUrls, now, resetSinceAnalysis>>
    /\ UNCHANGED <<currentVideoTime, clipboard, download>>
    /\ renderTable
    /\ UNCHANGED <<videoDuration, player>>

\* A severity button of the incident table:
\* onFilterChange({ ...filters, [sev]: !filters[sev] })
onFilterChange(sev) ==
    /\ resultsViewMounted
    /\ filters' = [filters EXCEPT ![sev] = ~filters[sev]]
    /\ lastEvent' = Event("onFilterChange", NULL)
    /\ UNCHANGED <<appState, file, analysisResult, errorMsg, videoUrl,
                   seekToRequest, pending, objectUrls, now, resetSinceAnalysis>>
    /\ UNCHANGED <<currentVideoTime, clipboard, download>>
    /\ renderTable
    /\ UNCHANGED <<videoDuration, player>>

\* A click on row k of the incident table.
onIncidentClick(k) ==
    /\ resultsViewMounted
    /\ k \in DOMAIN filteredIncidents(currentIncidents, filters)
    /\ seekToRequest' =
         <<[time |-> filteredIncidents(currentIncidents, filters)[k].seconds,
            timestamp |-> now]>>
    /\ lastEvent' = Event("onIncidentClick", NULL)
    /\ UNCHANGED <<appState, file, analysisResult, errorMsg, videoUrl,
                   filters, pending, objectUrls, now, resetSinceAnalysis>>
    /\ UNCHANGED <<currentVideoTime, clipboard, download>>
    /\ renderTable
    /\ UNCHANGED videoDuration
    /\ \E playOk \in BOOLEAN :
          player' = IF player = NULL THEN NULL
                    ELSE <<seekEffect(player[1], seekToRequest'[1], playOk)>>

\* Playback positions the player reports while the results are shown.
Times == {0, 32}

\* The video player reports its playback position: setCurrentVideoTime.
onTimeUpdate(t) ==
    /\ resultsViewMounted
    /\ currentVideoTime' = t
    /\ lastEvent' = Event("onTimeUpdate", NULL)
    /\ UNCHANGED <<appState, file, analysisResult, errorMsg, videoUrl,
                   seekToRequest, filters, pending, objectUrls, now,
                   resetSinceAnalysis, clipboard, download>>
    /\ renderTable
    /\ UNCHANGED <<videoDuration, player>>

\* The Copy button of the incident table.
handleCopy ==
    /\ resultsViewMounted
    /\ clipboard' = <<clipboardText(table[1].filteredIncidents)>>
    /\ lastEvent' = Event("handleCopy", NULL)
    /\ UNCHANGED <<appState, file, analysisResult, errorMsg, videoUrl,
                   seekToRequest, filters, pending, objectUrls, now,
                   resetSinceAnalysis, currentVideoTime, download>>
    /\ renderTable
    /\ UNCHANGED <<videoDuration, player>>

\* The CSV button of the incident table: the content goes into a Blob, which
\* gets an object URL of its own and is offered as surveillance_report.csv.
handleExportCSV ==
    /\ resultsViewMounted
    /\ objectUrls < MaxObjectUrls
    /\ objectUrls' = objectUrls + 1
    /\ download' = <<csvContent(table[1].filteredIncidents)>>
    /\ lastEvent' = Event("handleExportCSV", NULL)
    /\ UNCHANGED <<appState, file, analysisResult, errorMsg, videoUrl,
                   seekToRequest, filters, pending, now,
                   resetSinceAnalysis, currentVideoTime, clipboard>>
    /\ renderTable
    /\ UNCHANGED <<videoDuration, player>>

\* The wall clock advances.
Tick ==
    /\ now < MaxNow
    /\ now' = now + 1
    /\ UNCHANGED <<appState, file, analysisResult, errorMsg, videoUrl,
                   seekToRequest, filters, pending, objectUrls, lastEvent,
                   resetSinceAnalysis>>
    /\ UNCHANGED <<currentVideoTime, clipboard, download>>
    /\ renderTable
    /\ UNCHANGED <<videoDuration, player>>

Next ==
    \/ \E f \in Files : handleFileChange(f)
    \/ \E f \in Files : handleDrop(f)
    \/ startAnalysis
    \/ \E i \in DOMAIN pending, readOk \in BOOLEAN, svc \in ServiceOutcomes :
          analysisSettles(i, readOk, svc)
    \/ \E i \in DOMAIN pending : startAnalysisResumes(i)
    \/ \E i \in DOMAIN pending : startAnalysisCatches(i)
    \/ handleReset
    \/ goBack
    \/ \E sev \in Severity : onFilterChange(sev)
    \/ \E k \in 1..2 : onIncidentClick(k)
    \/ \E t \in Times : onTimeUpdate(t)
    \/ Tick

Spec == Init /\ [][Next]_vars

\* The app under the assumption that the file read and the inference service
\* eventually respond or fail; the continuation of an awaited promise that
\* has settled is run by the event loop.
serviceResponds ==
    \E i \in DOMAIN pending, readOk \in BOOLEAN, svc \in ServiceOutcomes :
        analysisSettles(i, readOk, svc)

continuationRuns ==
    \E i \in DOMAIN pending : startAnalysisResumes(i) \/ startAnalysisCatches(i)

FairSpec ==
    /\ Init
    /\ [][Next]_vars
    /\ WF_vars(serviceResponds)
    /\ WF_vars(continuationRuns)

\* ------------------------------------------- the analysis client on its own
\* analyzeVideoWithGemini is exported: a caller hands it any file.
analyzeCalled(f) ==
    /\ Len(pending) < MaxClientCalls
    /\ pending' = Append(pending, newCall(f))
    /\ UNCHANGED <<appState, file, analysisResult, errorMsg, videoUrl,
                   seekToRequest, filters, objectUrls, now, lastEvent,
                   resetSinceAnalysis>>
    /\ UNCHANGED <<currentVideoTime, clipboard, download>>
    /\ renderTable
    /\ UNCHANGED <<videoDuration, player>>

\* The caller takes the settled promise's value.
callReturns(i) ==
    /\ i \in DOMAIN pending
    /\ pending[i].outcome # NULL
    /\ pending' = removeAt(pending, i)
    /\ UNCHANGED <<appState, file, analysisResult, errorMsg, videoUrl,
                   seekToRequest, filters, objectUrls, now, lastEvent,
                   resetSinceAnalysis>>
    /\ UNCHANGED <<currentVideoTime, clipboard, download>>
    /\ renderTable
    /\ UNCHANGED <<videoDuration, player>>

ClientNext ==
    \/ \E f \in ClientFiles : analyzeCalled(f)
    \/ \E i \in DOMAIN pending, readOk \in BOOLEAN, svc \in ClientServiceOutcomes :
          analysisSettles(i, readOk, svc)
    \/ \E i \in DOMAIN pending : callReturns(i)

ClientSpec == Init /\ [][ClientNext]_vars

\* ------------------------------------------- the incident table on its own
\* The results view showing any result of up to MaxIncidents incidents: the
\* state startAnalysisResumes leaves after a first analysis of a valid file.
IncTie == RawIncident("00:05", 5, "Low", <<"a", ",", "b">>)
IncMid == RawIncident("00:07", 7, "Medium", <<"l", "\n", "m">>)
IncQuote == RawIncident("00:30", 30, "High", <<"q", "\"">>)
TablePool == {IncX, IncTie, IncMid, IncQuote}

IncidentLists(n) == UNION {[1..k -> TablePool] : k \in 0..n}

ResultsShown(raw) ==
    /\ appState = RESULTS
    /\ file = <<[type |-> VideoMp4, size |-> 10 * MB]>>
    /\ analysisResult = <<[summary |-> Msg("ok"), incidents |-> withIds(raw, 0)]>>
    /\ errorMsg = EmptyString
    /\ videoUrl = <<"blob", 1>>
    /\ seekToRequest = NULL
    /\ filters = AllTrue
    /\ pending = <<>>
    /\ objectUrls = 1
    /\ now = 0
    /\ lastEvent = [name |-> "startAnalysisResumes", file |-> NULL, from |-> ANALYZING]
    /\ resetSinceAnalysis = FALSE
    /\ currentVideoTime = 0
    /\ table = <<IncidentTable(NULL, withIds(raw, 0), AllTrue, 0)>>
    /\ clipboard = NULL
    /\ download = NULL
    /\ videoDuration = Num(0)

TableInit == \E raw \in IncidentLists(MaxIncidents) : ResultsShown(raw) /\ player = NULL

\* Playback positions around the incidents of TablePool.
TableTimes == {0, 2, 3, 5, 8, 10, 27, 32, 33, 34}

TableNext ==
    \/ \E sev \in Severity : onFilterChange(sev)
    \/ \E t \in TableTimes : onTimeUpdate(t)

TableSpec == TableInit /\ [][TableNext]_vars

\* ---------------------------------------------- the video player on its own
\* The handlers of VideoPlayer and the events of its video element, from the
\* results view of a result with incidents at seconds 5 and 30.
playerMounted == resultsViewMounted /\ player # NULL

\* What the element reports as its duration when its metadata has loaded.
MediaDurations == {NaN, Num(40)}

\* loadedmetadata: the element has its duration and holds its position inside
\* it; handleLoadedMetadata forwards the duration as the element reports it.
handleLoadedMetadata(d) ==
    /\ playerMounted
    /\ ~player[1].video.metadata
    /\ player' = <<[player[1] EXCEPT
                      !.video = setCurrentTime(
                                  [@ EXCEPT !.metadata = TRUE, !.duration = d],
                                  @.currentTime),
                      !.duration = d]>>
    /\ videoDuration' = d
    /\ lastEvent' = Event("handleLoadedMetadata", NULL)
    /\ UNCHANGED <<appState, file, analysisResult, errorMsg, videoUrl,
                   seekToRequest, filters, pending, objectUrls, now,
                   resetSinceAnalysis, currentVideoTime, clipboard, download>>
    /\ renderTable

\* Seconds of playback between two timeupdate events.
PlaybackStep == 5

\* timeupdate: fired with the position unchanged (after a seek), or after the
\* playing element has moved on by PlaybackStep; handleTimeUpdate reports the
\* element's position.
handleTimeUpdate(advance) ==
    /\ playerMounted
    /\ advance # 0 =>
          /\ ~player[1].video.paused
          /\ player[1].video.metadata
          /\ player[1].video.currentTime + advance <= MaxPosition
          /\ ~player[1].video.duration.nan =>
                player[1].video.currentTime + advance <= player[1].video.duration.v
    /\ player' = <<[player[1] EXCEPT !.video.currentTime = @ + advance]>>
    /\ currentVideoTime' = player[1].video.currentTime + advance
    /\ lastEvent' = Event("handleTimeUpdate", NULL)
    /\ UNCHANGED <<appState, file, analysisResult, errorMsg, videoUrl,
                   seekToRequest, filters, pending, objectUrls, now,
                   resetSinceAnalysis, clipboard, download, videoDuration>>
    /\ renderTable

\* ended: playback has reached the end, the element pauses itself.
onEnded ==
    /\ playerMounted
    /\ player[1].video.metadata
    /\ ~player[1].video.duration.nan
    /\ ~player[1].video.paused
    /\ player[1].video.currentTime = player[1].video.duration.v
    /\ player' = <<[player[1] EXCEPT !.video.paused = TRUE, !.isPlaying = FALSE]>>
    /\ lastEvent' = Event("onEnded", NULL)
    /\ UNCHANGED <<appState, file, analysisResult, errorMsg, videoUrl,
                   seekToRequest, filters, pending, objectUrls, now,
                   resetSinceAnalysis, currentVideoTime, clipboard, download,
                   videoDuration>>
    /\ renderTable

\* max={duration || 100} of the timeline slider.
sliderMax(duration) == IF duration.nan \/ duration.v = 0 THEN 100 ELSE duration.v

\* Values the user drags the timeline slider to.
SliderValues == {20, 50}

\* The timeline slider is dragged to value.
handleSeek(value) ==
    /\ playerMounted
    /\ value <= sliderMax(player[1].duration)
    /\ player' = <<[player[1] EXCEPT !.video = setCurrentTime(@, value)]>>
    /\ currentVideoTime' = value
    /\ lastEvent' = Event("handleSeek", NULL)
    /\ UNCHANGED <<appState, file, analysisResult, errorMsg, videoUrl,
                   seekToRequest, filters, pending, objectUrls, now,
                   resetSinceAnalysis, clipboard, download, videoDuration>>
    /\ renderTable

\* The skip buttons: skip(-5) and skip(5).
SkipSeconds == {-5, 5}

skip(seconds) ==
    /\ playerMounted
    /\ player[1].video.currentTime + seconds <= MaxPosition
    /\ player' = <<[player[1] EXCEPT
                      !.video = setCurrentTime(@, @.currentTime + seconds)]>>
    /\ lastEvent' = Event("skip", NULL)
    /\ UNCHANGED <<appState, file, analysisResult, errorMsg, videoUrl,
                   seekToRequest, filters, pending, objectUrls, now,
                   resetSinceAnalysis, currentVideoTime, clipboard, download,
                   videoDuration>>
    /\ renderTable

\* Variant: nothing happens before the metadata has loaded.
togglePlayWhenLoaded(playOk) ==
    /\ playerMounted
    /\ player' =
         IF ~player[1].video.metadata THEN player
         ELSE IF player[1].video.paused
           THEN <<[player[1] EXCEPT
                     !.video = play(@, playOk),
                     !.isPlaying = TRUE,
                     !.rejection = IF playOk THEN @ ELSE "uncaught"]>>
           ELSE <<[player[1] EXCEPT !.video.paused = TRUE, !.isPlaying = FALSE]>>
    /\ lastEvent' = Event("togglePlay", NULL)
    /\ UNCHANGED <<appState, file, analysisResult, errorMsg, videoUrl,
                   seekToRequest, filters, pending, objectUrls, now,
                   resetSinceAnalysis, currentVideoTime, clipboard, download,
                   videoDuration>>
    /\ renderTable

\* The play button, or a click on the video.  play() has no handler for a
\* rejection here.
togglePlay(playOk) ==
    /\ playerMounted
    /\ player' =
         IF player[1].video.paused
           THEN <<[player[1] EXCEPT
                     !.video = play(@, playOk),
                     !.isPlaying = TRUE,
                     !.rejection = IF playOk THEN @ ELSE "uncaught"]>>
           ELSE <<[player[1] EXCEPT !.video.paused = TRUE, !.isPlaying = FALSE]>>
    /\ lastEvent' = Event("togglePlay", NULL)
    /\ UNCHANGED <<appState, file, analysisResult, errorMsg, videoUrl,
                   seekToRequest, filters, pending, objectUrls, now,
                   resetSinceAnalysis, currentVideoTime, clipboard, download,
                   videoDuration>>
    /\ renderTable

PlayerInit == ResultsShown(<<IncX, IncY>>) /\ player = <<mountedPlayer>>

PlayerNext ==
    \/ \E k \in 1..2 : onIncidentClick(k)
    \/ \E d \in MediaDurations : handleLoadedMetadata(d)
    \/ \E advance \in {0, PlaybackStep} : handleTimeUpdate(advance)
    \/ onEnded
    \/ \E value \in SliderValues : handleSeek(value)
    \/ \E seconds \in SkipSeconds : skip(seconds)
    \/ \E playOk \in BOOLEAN : togglePlay(playOk)
    \/ Tick

PlayerSpec == PlayerInit /\ [][PlayerNext]_vars

\* The two export buttons, for any shown result of up to MaxExported incidents.
ExportInit == \E raw \in IncidentLists(MaxExported) : ResultsShown(raw) /\ player = NULL

ExportNext ==
    \/ \E sev \in Severity : onFilterChange(sev)
    \/ handleCopy
    \/ handleExportCSV

ExportSpec == ExportInit /\ [][ExportNext]_vars

\* ------------------------------------------------------------------ claims
isSelection(e) == e.name \in {"handleFileChange", "handleDrop"}
isContinuation(e) == e.name \in {"startAnalysisResumes", "startAnalysisCatches"}

\* C1: startAnalysis invoked in Upload with no file selected changes nothing:
\* appState stays Upload, no analysis request is issued, and file,
\* analysisResult, errorMsg, videoUrl, filters and seekToRequest keep their values.
C1_StartAnalysisWithoutFileIsNoOp ==
    [][(lastEvent'.name = "startAnalysis" /\ appState = UPLOAD /\ file = NULL)
         => (appState' = UPLOAD /\ pending' = pending /\ UNCHANGED appVars)]_vars

C1_Witness ==
    /\ lastEvent.name = "startAnalysis"
    /\ lastEvent.from = UPLOAD
    /\ appState = UPLOAD
    /\ file = NULL

\* C2: a fulfilled analysis takes the app from Analyzing to Results with
\* analysisResult holding the summary and the incident list the request
\* returned, and whenever appState = Results analysisResult is non-null with a
\* non-empty summary.
C2_ResultsHoldTheReturnedResult ==
    /\ [](appState = RESULTS =>
            /\ analysisResult # NULL
            /\ analysisResult[1].summary # EmptyString)
    /\ [][(/\ Len(pending') < Len(pending)
           /\ pending[1].outcome # NULL
           /\ pending[1].outcome[1].ok)
          => /\ appState = ANALYZING
             /\ appState' = RESULTS
             /\ analysisResult' = <<[summary |-> pending[1].outcome[1].summary,
                                     incidents |-> pending[1].outcome[1].incidents]>>]_vars

C2_Witness ==
    /\ appState = RESULTS
    /\ lastEvent.name = "startAnalysisResumes"
    /\ analysisResult # NULL
    /\ Len(analysisResult[1].incidents) = 2

\* C3: a rejected analysis takes the app from Analyzing to Error (not to
\* Results, not to Upload) and errorMsg is the message of the rejection.
C3_FailureShowsItsMessage ==
    [][(/\ Len(pending') < Len(pending)
        /\ pending[1].outcome # NULL
        /\ ~pending[1].outcome[1].ok)
       => /\ appState = ANALYZING
          /\ appState' = ERROR
          /\ errorMsg' = pending[1].outcome[1].message
          /\ errorMsg' # EmptyString]_vars

C3_Witness ==
    /\ appState = ERROR
    /\ lastEvent.name = "startAnalysisCatches"
    /\ errorMsg = Msg("API quota exceeded. Please try again later.")

\* C4: right after handleReset run from Results or from Error the app is in
\* Upload with file null, preview URL empty, analysis result null, all three
\* filters true and no pending seek request.
C4_ResetDiscardsEverything ==
    (lastEvent.name = "handleReset" /\ lastEvent.from \in {RESULTS, ERROR})
      => /\ appState = UPLOAD
         /\ file = NULL
         /\ videoUrl = EmptyString
         /\ analysisResult = NULL
         /\ filters = AllTrue
         /\ seekToRequest = NULL

\* C5: no step takes appState from Upload to Results, from Upload to Error,
\* or from Results to Analyzing.
C5_NoForbiddenTransition ==
    [][/\ ~(appState = UPLOAD /\ appState' = RESULTS)
       /\ ~(appState = UPLOAD /\ appState' = ERROR)
       /\ ~(appState = RESULTS /\ appState' = ANALYZING)]_vars

C5_Witness ==
    /\ appState = RESULTS
    /\ lastEvent.name = "startAnalysisResumes"
    /\ lastEvent.from = ANALYZING

\* C6: at most one startAnalysis call is suspended at its await at any time.
C6_AtMostOneInFlight == Len(pending) <= 1

C6_Witness ==
    /\ Len(pending) = 1
    /\ pending[1].outcome = NULL
    /\ appState = ANALYZING

\* C7: Analyzing is entered only if handleReset has run since the previous
\* entry into Analyzing.
C7_ResetBetweenAnalyses ==
    [][(appState # ANALYZING /\ appState' = ANALYZING) => resetSinceAnalysis]_vars

\* C8: the continuation of a request runs only after the request has settled
\* and only in Analyzing, it leaves Analyzing for Results or Error, and no
\* request is left to be applied afterwards: one call is suspended exactly
\* while the app is in Analyzing.
C8_ResolutionAppliedOnce ==
    /\ [](Len(pending) = (IF appState = ANALYZING THEN 1 ELSE 0))
    /\ [][(Len(pending') < Len(pending))
          => /\ pending[1].outcome # NULL
             /\ appState = ANALYZING
             /\ appState' \in {RESULTS, ERROR}
             /\ appState' = (IF pending[1].outcome[1].ok THEN RESULTS ELSE ERROR)
             /\ pending' = <<>>]_vars

C8_Witness ==
    /\ isContinuation(lastEvent)
    /\ lastEvent.from = ANALYZING
    /\ pending = <<>>
    /\ appState \in {RESULTS, ERROR}

\* C9: in Analyzing no handler runs; the only steps that change the App state
\* are the two continuations of startAnalysis, to Results and to Error.
C9_NoUserActionWhileAnalyzing ==
    [][appState = ANALYZING
         => \/ (lastEvent' = lastEvent /\ UNCHANGED appVars)
            \/ (/\ isContinuation(lastEvent')
                /\ appState' \in {RESULTS, ERROR})]_vars

C9_Witness ==
    /\ appState = ANALYZING
    /\ Len(pending) = 1
    /\ pending[1].outcome # NULL

\* C10: a selected file whose type does not start with 'video/' or whose size
\* exceeds 75 MB sets an error message and leaves appState (Upload), the held
\* file and the preview URL unchanged; any other file is stored, gets a fresh
\* preview URL and clears the error message.
C10_SelectionValidates ==
    [][(isSelection(lastEvent') /\ appState = UPLOAD)
         => LET f == lastEvent'.file[1]
            IN IF ~startsWithVideo(f.type) \/ f.size > 75 * MB
                 THEN /\ errorMsg' # EmptyString
                      /\ appState' = UPLOAD
                      /\ file' = file
                      /\ videoUrl' = videoUrl
                 ELSE /\ file' = <<f>>
                      /\ videoUrl' # EmptyString
                      /\ errorMsg' = EmptyString
                      /\ appState' = UPLOAD]_vars

C10_Witness ==
    /\ isSelection(lastEvent)
    /\ lastEvent.file[1].size > 75 * MB
    /\ startsWithVideo(lastEvent.file[1].type)
    /\ file # NULL
    /\ videoUrl # EmptyString
    /\ errorMsg = Msg("File size exceeds 75MB limit.")

hasSettled(call) == call.outcome # NULL
QuotaMessage == Msg("API quota exceeded. Please try again later.")
GenericMessage == Msg("Failed to analyze video. Please try again or check the file format.")

\* C11: a call of analyze with a file whose type does not start with 'video/'
\* or whose size exceeds 50 MB is rejected with a message and issues no request
\* to the inference service, whatever the file read and the service would do.
C11_InvalidFileFailsBeforeNetwork ==
    \A i \in DOMAIN pending :
        (/\ hasSettled(pending[i])
         /\ \/ ~(Len(pending[i].file.type) >= 2 /\ pending[i].file.type[1] = "video")
            \/ pending[i].file.size > 50 * MB)
        => /\ ~pending[i].outcome[1].ok
           /\ pending[i].outcome[1].message # EmptyString
           /\ pending[i].requests = 0

C11_Witness ==
    \E i \in DOMAIN pending :
        /\ hasSettled(pending[i])
        /\ pending[i].file.type = VideoMp4
        /\ pending[i].file.size = 50 * MB + 1
        /\ pending[i].env[1].readOk
        /\ pending[i].env[1].svc.kind = "text"
        /\ pending[i].env[1].svc.text.parse = "object"
        /\ pending[i].requests = 0

\* C12: a file-type or file-size violation never takes the app to Error: a
\* selection leaves the app in Upload, and the app enters Error only for a
\* request whose file is a video of at most 50 MB.
C12_ValidationErrorsStayInline ==
    [][/\ (isSelection(lastEvent') /\ appState = UPLOAD) => appState' = UPLOAD
       /\ (appState # ERROR /\ appState' = ERROR /\ pending # <<>>)
            => (/\ startsWithVideo(pending[1].file.type)
                /\ pending[1].file.size <= 50 * MB)]_vars

\* C13: with the request sent and answered, analyze is rejected when the text
\* is not JSON or the parsed object has no string summary or no array
\* incidents, and is fulfilled when summary is a string (the empty string
\* included) and incidents is an array.
C13_ResponseShapeDecides ==
    \A i \in DOMAIN pending :
        (/\ hasSettled(pending[i])
         /\ pending[i].requests = 1
         /\ pending[i].env[1].svc.kind = "text")
        => LET text == pending[i].env[1].svc.text
           IN pending[i].outcome[1].ok
                <=> (/\ text.parse = "object"
                     /\ text.summary.t = "string"
                     /\ text.incidents.t = "array")

\* C14: when the service call fails with a quota error (its message mentions
\* quota and is not an API_KEY_INVALID error), the app goes to Error and
\* errorMsg is the quota message, neither the service's message nor the
\* generic failure text.
C14_QuotaErrorShowsQuotaMessage ==
    [][(/\ Len(pending') < Len(pending)
        /\ hasSettled(pending[1])
        /\ pending[1].requests = 1
        /\ pending[1].env[1].svc.kind = "throw"
        /\ includes(pending[1].env[1].svc.message, "quota")
        /\ ~includes(pending[1].env[1].svc.message, "API_KEY_INVALID"))
       => /\ appState' = ERROR
          /\ errorMsg' = QuotaMessage
          /\ errorMsg' # pending[1].env[1].svc.message
          /\ errorMsg' # GenericMessage]_vars

C14_Witness ==
    /\ appState = ERROR
    /\ errorMsg = QuotaMessage
    /\ lastEvent.name = "startAnalysisCatches"
    /\ lastEvent.from = ANALYZING
    /\ file # NULL
    /\ pending = <<>>

\* C15: a call of analyze issues at most one request; a call is started only
\* by startAnalysis, one per start; in Error no call is suspended and none is
\* started, and the app leaves Error only by handleReset or Go Back.
C15_OneAttemptNoRetry ==
    /\ [](\A i \in DOMAIN pending : pending[i].requests <= 1)
    /\ [][(Len(pending') > Len(pending))
            => (/\ lastEvent'.name = "startAnalysis"
                /\ file # NULL
                /\ Len(pending') = Len(pending) + 1)]_vars
    /\ [][(appState = UPLOAD /\ appState' = ANALYZING)
            => Len(pending') = Len(pending) + 1]_vars
    /\ [][appState = ERROR
            => (/\ pending = <<>>
                /\ pending' = <<>>
                /\ \/ appState' = ERROR
                   \/ lastEvent'.name \in {"handleReset", "goBack"})]_vars

C15_Witness ==
    /\ appState = ERROR
    /\ lastEvent.name = "startAnalysisCatches"
    /\ errorMsg = Msg("fetch failed")
    /\ pending = <<>>

count(seq, x) == Cardinality({i \in DOMAIN seq : seq[i] = x})

\* C16: whenever the incident table is shown, the filtered list it displays
\* equals the list recomputed from scratch from the current incidents and the
\* current filters, and holds exactly the incidents whose severity the filters
\* map to true (each as often as the result holds it, the others never), after
\* any sequence of filter toggles and result changes.
C16_DisplayedListIsRecomputedList ==
    /\ (table # NULL) <=> (appState = RESULTS)
    /\ table # NULL =>
          /\ table[1].filteredIncidents = filteredIncidents(currentIncidents, filters)
          /\ \A i \in DOMAIN currentIncidents :
                count(table[1].filteredIncidents, currentIncidents[i]) =
                  IF filters[currentIncidents[i].severity]
                    THEN count(currentIncidents, currentIncidents[i])
                    ELSE 0
          /\ \A j \in DOMAIN table[1].filteredIncidents :
                count(currentIncidents, table[1].filteredIncidents[j]) > 0

\* A toggle has just hidden one of two incidents of the shown result.
C16_Witness ==
    /\ table # NULL
    /\ lastEvent.name = "onFilterChange"
    /\ Len(currentIncidents) = 2
    /\ Len(table[1].filteredIncidents) = 1
    /\ \E sev \in Severity : ~filters[sev]

\* The position an incident had in the result, read off its id.
originalIndex(inc) == inc.id[2]

\* C17: the displayed list is in non-decreasing order of seconds, incidents
\* with equal seconds keep the relative order they have in the result, and the
\* result's own incident sequence stays in its original order.
C17_SortedStableOriginalUntouched ==
    table # NULL =>
      /\ \A i, j \in DOMAIN table[1].filteredIncidents :
            i < j =>
              \/ table[1].filteredIncidents[i].seconds
                   < table[1].filteredIncidents[j].seconds
              \/ /\ table[1].filteredIncidents[i].seconds
                     = table[1].filteredIncidents[j].seconds
                 /\ originalIndex(table[1].filteredIncidents[i])
                     < originalIndex(table[1].filteredIncidents[j])
      /\ \A i \in DOMAIN currentIncidents :
            originalIndex(currentIncidents[i]) = i - 1

\* Three incidents shown after a toggle: the result lists a later incident
\* first, and two of them share their second.
C17_Witness ==
    /\ table # NULL
    /\ lastEvent.name = "onFilterChange"
    /\ Len(table[1].filteredIncidents) = 3
    /\ table[1].filteredIncidents[1].seconds = table[1].filteredIncidents[2].seconds
    /\ currentIncidents[1].seconds > currentIncidents[2].seconds

\* Positions of the result's incidents strictly less than three seconds from
\* the playback position.
nearPositions ==
    {i \in DOMAIN currentIncidents :
        /\ currentVideoTime - currentIncidents[i].seconds < 3
        /\ currentIncidents[i].seconds - currentVideoTime < 3}

\* C18: the highlighted incident is the first one, in the result's unfiltered
\* order, whose seconds differ from the playback position by strictly less
\* than 3, and none when there is no such incident, whatever the filters are.
C18_ActiveIsFirstNear ==
    table # NULL =>
      IF nearPositions = {}
        THEN table[1].activeIncidentId = NULL
        ELSE \E i \in nearPositions :
               /\ \A j \in nearPositions : i <= j
               /\ table[1].activeIncidentId = <<currentIncidents[i].id>>

\* Two incidents are near the reported position, the first of them is not the
\* closest, and its severity is filtered out.
C18_Witness ==
    /\ table # NULL
    /\ lastEvent.name = "onTimeUpdate"
    /\ \E i, j \in nearPositions :
          /\ i < j
          /\ \A k \in nearPositions : i <= k
          /\ currentIncidents[j].seconds = currentVideoTime
          /\ currentIncidents[i].seconds # currentVideoTime
          /\ ~filters[currentIncidents[i].severity]
          /\ table[1].activeIncidentId = <<currentIncidents[i].id>>

\* FilteredIncidents of the shown result, recomputed from scratch.
FilteredNow == filteredIncidents(currentIncidents, filters)

\* The given entries, one after the other, a line break between neighbours.
RECURSIVE separatedByLineBreaks(_)
separatedByLineBreaks(entries) ==
    IF entries = <<>> THEN <<>>
    ELSE IF Len(entries) = 1 THEN entries[1]
    ELSE separatedByLineBreaks(SubSeq(entries, 1, Len(entries) - 1))
           \o <<"\n">> \o entries[Len(entries)]

lineBreaksIn(text) == Cardinality({i \in DOMAIN text : text[i] = "\n"})

RECURSIVE lineBreaksInDescriptions(_)
lineBreaksInDescriptions(list) ==
    IF list = <<>> THEN 0
    ELSE lineBreaksIn(list[1].description) + lineBreaksInDescriptions(Tail(list))

HeaderLine == <<"Timestamp", ",", "Severity", ",", "Description">>

RowWithQuotedDescription(inc) ==
    <<inc.timestamp, ",", inc.severity, ",", "\"">> \o inc.description \o <<"\"">>

ExpectedCsv ==
    separatedByLineBreaks(
        <<HeaderLine>> \o
        [i \in DOMAIN FilteredNow |-> RowWithQuotedDescription(FilteredNow[i])])

\* C19 as stated: after a copy the clipboard holds one line per incident of
\* FilteredIncidents, in order, rendered as [severity] timestamp: description;
\* after a CSV export the download is the header line followed by one row per
\* incident of FilteredIncidents with the description double-quoted, making
\* 1 + |FilteredIncidents| lines.
C19_ExportsAsStated ==
    /\ lastEvent.name = "handleCopy" =>
          /\ clipboard =
               <<separatedByLineBreaks(
                   [i \in DOMAIN FilteredNow |->
                      <<"[", FilteredNow[i].severity, "] ",
                        FilteredNow[i].timestamp, ": ">>
                        \o FilteredNow[i].description])>>
          /\ FilteredNow # <<>> =>
                lineBreaksIn(clipboard[1]) + 1 = Len(FilteredNow)
    /\ lastEvent.name = "handleExportCSV" =>
          /\ download = <<ExpectedCsv>>
          /\ lineBreaksIn(download[1]) + 1 = 1 + Len(FilteredNow)

\* C19, amended: after a copy the clipboard holds one entry per incident of
\* FilteredIncidents, in order, rendered as [timestamp] severity: description,
\* entries separated by line breaks; after a CSV export the download is the
\* header line followed by one row timestamp,severity,"description" per
\* incident of FilteredIncidents, in order, rows separated by line breaks; the
\* CSV has 1 + |FilteredIncidents| lines plus one for every line break inside
\* an exported description.
C19_ExportsFilteredInOrder ==
    /\ lastEvent.name = "handleCopy" =>
          clipboard =
            <<separatedByLineBreaks(
                [i \in DOMAIN FilteredNow |->
                   <<"[", FilteredNow[i].timestamp, "] ",
                     FilteredNow[i].severity, ": ">>
                     \o FilteredNow[i].description])>>
    /\ lastEvent.name = "handleExportCSV" =>
          /\ download = <<ExpectedCsv>>
          /\ lineBreaksIn(download[1]) + 1 =
                1 + Len(FilteredNow) + lineBreaksInDescriptions(FilteredNow)

\* A CSV export after a copy, with one of the result's two incidents hidden.
C19_Witness ==
    /\ lastEvent.name = "handleExportCSV"
    /\ clipboard # NULL
    /\ clipboard[1] # <<>>
    /\ Len(currentIncidents) = 2
    /\ Len(FilteredNow) = 1

\* Standard quoted-field CSV parsing (RFC 4180) of text from position i on:
\* a field is bare or enclosed in double quotes, a double quote inside an
\* enclosed field is written twice, and commas and line breaks inside an
\* enclosed field belong to it.  mode: "start" of a field, inside a "bare"
\* field, inside a "quoted" field, or just after a double quote seen inside a
\* quoted field ("closed").
RECURSIVE parseCsvFrom(_, _, _, _, _, _)
parseCsvFrom(text, i, mode, field, row, rows) ==
    IF i > Len(text)
      THEN IF mode = "quoted" THEN [ok |-> FALSE, rows |-> rows]
           ELSE IF text = <<>> THEN [ok |-> TRUE, rows |-> <<>>]
           ELSE [ok |-> TRUE, rows |-> Append(rows, Append(row, field))]
    ELSE IF mode = "quoted"
      THEN IF text[i] = "\""
             THEN parseCsvFrom(text, i + 1, "closed", field, row, rows)
             ELSE parseCsvFrom(text, i + 1, "quoted", Append(field, text[i]), row, rows)
    ELSE IF text[i] = ","
      THEN parseCsvFrom(text, i + 1, "start", <<>>, Append(row, field), rows)
    ELSE IF text[i] = "\n"
      THEN parseCsvFrom(text, i + 1, "start", <<>>, <<>>,
                        Append(rows, Append(row, field)))
    ELSE IF text[i] = "\""
      THEN IF mode = "start"
             THEN parseCsvFrom(text, i + 1, "quoted", <<>>, row, rows)
           ELSE IF mode = "closed"
             THEN parseCsvFrom(text, i + 1, "quoted", Append(field, "\""), row, rows)
           ELSE [ok |-> FALSE, rows |-> rows]
    ELSE IF mode = "closed" THEN [ok |-> FALSE, rows |-> rows]
    ELSE parseCsvFrom(text, i + 1, "bare", Append(field, text[i]), row, rows)

parseCsv(text) == parseCsvFrom(text, 1, "start", <<>>, <<>>, <<>>)

\* C20: the exported CSV, parsed as standard quoted-field CSV with the header
\* skipped, gives back the (timestamp, severity, description) tuples of
\* FilteredIncidents in the same order.
C20_CsvRoundTrips ==
    lastEvent.name = "handleExportCSV" =>
      /\ parseCsv(download[1]).ok
      /\ Tail(parseCsv(download[1]).rows) =
           [i \in DOMAIN FilteredNow |->
              << <<FilteredNow[i].timestamp>>, <<FilteredNow[i].severity>>,
                 FilteredNow[i].description >>]

\* C25: every object URL created by a file selection is released once it is
\* no longer the current preview URL, in particular after a reset.
C25_SupersededUrlsAreReleased ==
    \A n \in 1..objectUrls :
        videoUrl = <<"blob", n>> \/ n \in revokedObjectUrls

\* C29: Go Back in the error view moves the app to Upload and changes nothing
\* else: the error message, the file, the preview URL, the filters, the seek
\* request and the result keep their values, so Upload shows the previous
\* file still selected and the error still displayed.
C29_GoBackOnlyChangesTheView ==
    [][(lastEvent'.name = "goBack" /\ appState = ERROR)
         => /\ appState' = UPLOAD
            /\ UNCHANGED <<errorMsg, file, videoUrl, filters, seekToRequest,
                           analysisResult, currentVideoTime>>
            /\ file' # NULL
            /\ errorMsg' # EmptyString]_vars

\* Go Back has just been pressed: Upload with a file and a message.
C29_Witness ==
    /\ lastEvent.name = "goBack"
    /\ appState = UPLOAD
    /\ file # NULL
    /\ errorMsg # EmptyString
    /\ \E sev \in Severity : ~filters[sev]

\* C30: filters start all true, and a step changes them only if it is a
\* toggle of one severity s, which flips filters[s] and leaves the other two
\* as they were; no other operation changes a filter value.
C30_FiltersChangeOnlyByToggle ==
    /\ filters = AllTrue
    /\ [][filters' # filters
            => /\ lastEvent'.name = "onFilterChange"
               /\ appState = RESULTS
               /\ \E sev \in Severity :
                     filters' = [filters EXCEPT ![sev] = ~filters[sev]]]_vars

\* A toggle has switched one severity back on while another stays off.
C30_Witness ==
    /\ lastEvent.name = "onFilterChange"
    /\ Cardinality({sev \in Severity : filters[sev]}) = 2

\* A step of the named player handler (the clock stands still in it).
stepOf(name) == lastEvent'.name = name /\ now' = now /\ player # NULL /\ player' # NULL

\* C21: every click on an incident row makes the player set the media
\* position to the clicked incident's second; a paused media gets a play
\* request (it plays, or the rejection is logged), a playing media stays
\* playing, isPlaying is true afterwards, and every click, a repeated click on
\* the same incident included, runs a seek of its own.
C21_ExternalSeekSeeksAndPlays ==
    [][stepOf("onIncidentClick")
         => /\ seekToRequest' # NULL
            /\ \E k \in DOMAIN FilteredNow :
                  seekToRequest'[1].time = FilteredNow[k].seconds
            /\ player'[1].video.currentTime = seekToRequest'[1].time
            /\ player'[1].isPlaying
            /\ player'[1].seekParity # player[1].seekParity
            /\ ~player[1].video.paused => ~player'[1].video.paused
            /\ player[1].video.paused =>
                  \/ ~player'[1].video.paused
                  \/ player'[1].rejection = "logged"]_vars

\* A second click has moved a playing video back to the clicked incident.
C21_Witness ==
    /\ player # NULL
    /\ lastEvent.name = "onIncidentClick"
    /\ seekToRequest # NULL
    /\ player[1].seekParity = 0
    /\ player[1].video.currentTime = seekToRequest[1].time
    /\ ~player[1].video.paused
    /\ player[1].isPlaying
    /\ currentVideoTime # seekToRequest[1].time

\* C22: a seek request whose nonce was already handled (same creation time,
\* same target as the request handled before) does not make the player seek
\* a second time.
C22_HandledNonceIsNotSoughtAgain ==
    [][(stepOf("onIncidentClick") /\ seekToRequest # NULL
          /\ seekToRequest' = seekToRequest)
         => /\ player'[1].seekParity = player[1].seekParity
            /\ player'[1].video.currentTime = player[1].video.currentTime]_vars

\* C23: the duration the player keeps and hands to the App is never NaN.
C23_DurationIsNeverNaN ==
    /\ ~videoDuration.nan
    /\ player # NULL => ~player[1].duration.nan

\* C24: the App's playback position lies between 0 and the App's duration.
C24_PositionWithinDuration ==
    /\ 0 <= currentVideoTime
    /\ ~videoDuration.nan
    /\ currentVideoTime <= videoDuration.v

C27_SkipIsSeek ==
    [][stepOf("skip")
         => \E seconds \in SkipSeconds :
              /\ player'[1].video =
                   setCurrentTime(player[1].video,
                                  player[1].video.currentTime + seconds)
              /\ currentVideoTime' = player[1].video.currentTime + seconds]_vars

\* C28: a play request the platform rejects (the media is paused before and
\* after a step that requests play) is caught and logged, leaves the app in
\* the results view, and leaves isPlaying true, on the seek path and on the
\* togglePlay path alike.
C28_RejectedPlayIsCaught ==
    [][((stepOf("onIncidentClick") \/ stepOf("togglePlay"))
          /\ player[1].video.paused /\ player'[1].video.paused)
         => /\ player'[1].rejection = "logged"
            /\ player'[1].isPlaying
            /\ appState' = RESULTS]_vars

\* C31: in every fulfilled analysis the result's incidents are as many as the
\* service response's and in its order, each with the timestamp, seconds,
\* severity and description the service supplied, and their synthesized ids
\* are pairwise distinct.
C31_IncidentsKeptIdsDistinct ==
    \A c \in DOMAIN pending :
        (hasSettled(pending[c]) /\ pending[c].outcome[1].ok) =>
            LET got == pending[c].outcome[1].incidents
                sent == pending[c].env[1].svc.text.incidents.a
            IN /\ Len(got) = Len(sent)
               /\ \A i \in DOMAIN got :
                     /\ got[i].timestamp = sent[i].timestamp
                     /\ got[i].seconds = sent[i].seconds
                     /\ got[i].severity = sent[i].severity
                     /\ got[i].description = sent[i].description
               /\ \A i, j \in DOMAIN got : i # j => got[i].id # got[j].id

\* A fulfilled analysis of a response that lists the same incident twice.
C31_Witness ==
    \E c \in DOMAIN pending :
        /\ hasSettled(pending[c])
        /\ pending[c].outcome[1].ok
        /\ Len(pending[c].outcome[1].incidents) = 2
        /\ pending[c].env[1].svc.text.incidents.a[1]
             = pending[c].env[1].svc.text.incidents.a[2]

\* C32: in Analyzing, Results and Error a validated file is present (file is
\* non-null and the preview URL is non-empty), and in every state file is null
\* exactly when the preview URL is empty.
C32_FileAndPreviewGoTogether ==
    /\ appState \in {ANALYZING, RESULTS, ERROR} =>
          /\ file # NULL
          /\ videoUrl # EmptyString
          /\ startsWithVideo(file[1].type)
          /\ file[1].size <= SelectMaxSize
    /\ (file = NULL) <=> (videoUrl = EmptyString)

\* Error after a second file replaced the first: the file and its preview.
C32_Witness ==
    /\ appState = ERROR
    /\ file # NULL
    /\ videoUrl = <<"blob", 2>>

\* C33: analysisResult is non-null exactly when appState is Results; Upload,
\* Analyzing and Error hold no result of an earlier analysis.
C33_ResultExactlyInResults ==
    (analysisResult # NULL) <=> (appState = RESULTS)

\* Error reached by an analysis that followed an earlier session.
C33_Witness ==
    /\ appState = ERROR
    /\ analysisResult = NULL
    /\ lastEvent.name = "startAnalysisCatches"
    /\ \E sev \in Severity : ~filters[sev]

\* C34: a seek request is pending only in Results, and every entry into
\* Results happens with no seek request pending.
C34_SeekRequestOnlyInResults ==
    /\ [](seekToRequest # NULL => appState = RESULTS)
    /\ [][(appState # RESULTS /\ appState' = RESULTS)
            => seekToRequest' = NULL]_vars

\* A seek request pending in the results of a later session.
C34_Witness ==
    /\ appState = RESULTS
    /\ seekToRequest # NULL
    /\ videoUrl = <<"blob", 2>>
    /\ \E sev \in Severity : ~filters[sev]

\* C35: whenever the app enters Results the App-level playback position is 0,
\* so the active incident of a newly shown result is derived from position 0.
C35_ResultsEnteredAtPositionZero ==
    [][(appState # RESULTS /\ appState' = RESULTS)
         => /\ currentVideoTime' = 0
            /\ table'[1].activeIncidentId
                 = activeIncidentId(analysisResult'[1].incidents, 0)]_vars

\* C36: if the file read and the service eventually respond or fail, every
\* entry into Analyzing is eventually followed by Results or Error; and as
\* long as the service has not responded no step leaves Analyzing (there is
\* no timeout and no abort), so without a response the app stays there.
C36_AnalyzingEndsWhenServiceResponds ==
    /\ (appState = ANALYZING) ~> (appState \in {RESULTS, ERROR})
    /\ [][(appState = ANALYZING
            /\ \A i \in DOMAIN pending : pending[i].outcome = NULL)
           => appState' = ANALYZING]_vars

\* An analysis whose file read failed has ended in Error.
C36_Witness ==
    /\ appState = ERROR
    /\ lastEvent.name = "startAnalysisCatches"
    /\ lastEvent.from = ANALYZING
    /\ errorMsg = Msg("Failed to read the video file. Please try again.")

TypeOK ==
    /\ appState \in AppState
    /\ Len(file) <= 1
    /\ Len(analysisResult) <= 1
    /\ Len(seekToRequest) <= 1
    /\ filters \in [Severity -> BOOLEAN]
====
